---- MODULE Spec2Model ----
(***************************************************************************)
(* ztr: creation of a note file (src/src/lib.rs).                          *)
(*                                                                         *)
(* Text is a sequence of symbols.  A symbol is a one-character string, or  *)
(* a run of ordinary characters kept as one unit ("test1", ".md"); the     *)
(* characters the renderer treats specially (& < > and the line break)     *)
(* are always symbols of their own.                                        *)
(*                                                                         *)
(* A template is a sequence of tokens: a symbol of literal text, an        *)
(* interpolation {{name}}, a block opening {{#helper param}} or a block    *)
(* closing {{/helper}}.                                                    *)
(***************************************************************************)
EXTENDS Integers, Sequences, FiniteSets, TLC

\* ------------------------------------------------------------------ text

\* Option<T>: None, or Some(v).
None == << >>

Some(v) == <<v>>

\* Option::unwrap_or
UnwrapOr(o, d) == IF o = None THEN d ELSE o[1]

NL == "\n"

RECURSIVE Concat(_)
\* The concatenation of a sequence of texts.
Concat(ss) ==
    IF ss = << >> THEN << >> ELSE Head(ss) \o Concat(Tail(ss))

\* ------------------------------------------------------------- templates

Text(c) == [k |-> "text", h |-> "", a |-> c]

Var(n) == [k |-> "var", h |-> "", a |-> n]

Open(h, a) == [k |-> "open", h |-> h, a |-> a]

Close(h) == [k |-> "close", h |-> h, a |-> ""]

\* The helpers Handlebars::new() registers that the templates here use.
Helpers == {"if", "each"}

IsBlockTag(t) == t.k \in {"open", "close"}

\* A block tag alone on its line: the template's first element or right after
\* a line break, and right before a line break.
Standalone(tpl, i) ==
    /\ IsBlockTag(tpl[i])
    /\ i = 1 \/ tpl[i - 1] = Text(NL)
    /\ i < Len(tpl) /\ tpl[i + 1] = Text(NL)

RECURSIVE StripFrom(_, _)
\* The tokens from i on, without the line break that ends a standalone
\* block tag's line.
StripFrom(tpl, i) ==
    IF i > Len(tpl) THEN << >>
    ELSE IF Standalone(tpl, i) THEN <<tpl[i]>> \o StripFrom(tpl, i + 2)
    ELSE <<tpl[i]>> \o StripFrom(tpl, i + 1)

RECURSIVE Balanced(_, _, _)
\* Whether the block tags of tpl from i on close the helpers of stack
\* (innermost first) and each other, in order.
Balanced(tpl, i, stack) ==
    IF i > Len(tpl) THEN stack = << >>
    ELSE IF tpl[i].k = "open" THEN Balanced(tpl, i + 1, <<tpl[i].h>> \o stack)
    ELSE IF tpl[i].k = "close"
         THEN /\ stack # << >>
              /\ Head(stack) = tpl[i].h
              /\ Balanced(tpl, i + 1, Tail(stack))
    ELSE Balanced(tpl, i + 1, stack)

\* hb.register_template_string("note", &note.template): the parsed template,
\* or a template error when a section tag is unmatched.
Compile(tpl) ==
    IF Balanced(tpl, 1, << >>)
    THEN [ok |-> TRUE, t |-> StripFrom(tpl, 1)]
    ELSE [ok |-> FALSE, t |-> << >>]

RECURSIVE MatchClose(_, _, _)
\* The index of the closing tag of the block whose body starts at i, depth
\* blocks being open inside it.
MatchClose(t, i, depth) ==
    IF t[i].k = "close"
    THEN IF depth = 0 THEN i ELSE MatchClose(t, i + 1, depth - 1)
    ELSE IF t[i].k = "open" THEN MatchClose(t, i + 1, depth + 1)
    ELSE MatchClose(t, i + 1, depth)

\* ------------------------------------------------------------- rendering

\* The renderer's default escape of one symbol of an interpolated value.
EscapeChar(c) ==
    CASE c = "&" -> <<"&amp;">>
      [] c = "<" -> <<"&lt;">>
      [] c = ">" -> <<"&gt;">>
      [] OTHER -> <<c>>

RECURSIVE HtmlEscape(_)
HtmlEscape(s) ==
    IF s = << >> THEN << >> ELSE EscapeChar(Head(s)) \o HtmlEscape(Tail(s))

\* The rendering context: the note (the root) or, inside {{#each tags}}, one
\* tag.
RootCtx(note) == [root |-> TRUE, note |-> note, item |-> << >>]

ItemCtx(note, e) == [root |-> FALSE, note |-> note, item |-> e]

TextFields == {"template", "filename", "title", "content"}

\* The value a name is bound to: [kind |-> "text" | "list" | "object" | "missing"].
Lookup(ctx, n) ==
    IF n = "this"
    THEN IF ctx.root THEN [kind |-> "object", v |-> << >>]
         ELSE [kind |-> "text", v |-> ctx.item]
    ELSE IF ~ctx.root THEN [kind |-> "missing", v |-> << >>]
    ELSE IF n \in TextFields THEN [kind |-> "text", v |-> ctx.note[n]]
    ELSE IF n = "tags" THEN [kind |-> "list", v |-> ctx.note.tags]
    ELSE [kind |-> "missing", v |-> << >>]

\* {{name}}: the escaped text of the value; nothing for a missing name.
RenderVar(ctx, n) ==
    LET b == Lookup(ctx, n)
    IN  CASE b.kind = "text" -> HtmlEscape(b.v)
          [] b.kind = "object" -> <<"[object]">>
          [] OTHER -> << >>

\* Truthy, were a list that is present a true condition even when empty.
TruthyWhenPresent(b) ==
    CASE b.kind = "text" -> b.v # << >>
      [] b.kind = "list" -> TRUE
      [] b.kind = "object" -> TRUE
      [] OTHER -> FALSE

\* The {{#if}} test: a non-empty list or a non-empty text.
Truthy(b) ==
    CASE b.kind = "text" -> b.v # << >>
      [] b.kind = "list" -> b.v # << >>
      [] b.kind = "object" -> TRUE
      [] OTHER -> FALSE

OkOut(s) == [ok |-> TRUE, out |-> s]

RenderErr == [ok |-> FALSE, out |-> << >>]

\* One result after another; an error ends the rendering.
Then(r1, r2) ==
    IF ~r1.ok \/ ~r2.ok THEN RenderErr ELSE OkOut(r1.out \o r2.out)

RECURSIVE RenderRange(_, _, _, _)
RECURSIVE RenderEach(_, _, _, _, _, _)
RECURSIVE RenderEachButLast(_, _, _, _, _, _)

\* RenderEach, were the iteration to stop one element early.
RenderEachButLast(t, lo, hi, note, items, k) ==
    IF k >= Len(items) THEN OkOut(<< >>)
    ELSE LET r == RenderRange(t, lo, hi, ItemCtx(note, items[k]))
         IN  IF ~r.ok THEN RenderErr
             ELSE Then(r, RenderEachButLast(t, lo, hi, note, items, k + 1))

\* {{#each list}}body{{/each}}: the body (tokens lo..hi) once per element
\* from the k-th on, in order, with the element as the context.
RenderEach(t, lo, hi, note, items, k) ==
    IF k > Len(items) THEN OkOut(<< >>)
    ELSE LET r == RenderRange(t, lo, hi, ItemCtx(note, items[k]))
         IN  IF ~r.ok THEN RenderErr
             ELSE Then(r, RenderEach(t, lo, hi, note, items, k + 1))

\* The rendering of one block, body lo..hi, opened by tag o.
RenderBlock(t, o, lo, hi, ctx) ==
    IF o.h \notin Helpers \/ o.a = "" THEN RenderErr
    ELSE LET b == Lookup(ctx, o.a)
         IN  IF o.h = "if"
             THEN IF Truthy(b) THEN RenderRange(t, lo, hi, ctx) ELSE OkOut(<< >>)
             ELSE IF b.kind = "list"
                  THEN RenderEach(t, lo, hi, ctx.note, b.v, 1)
                  ELSE OkOut(<< >>)

\* The rendering of tokens lo..hi of a compiled template.
RenderRange(t, lo, hi, ctx) ==
    IF lo > hi THEN OkOut(<< >>)
    ELSE IF t[lo].k = "text"
         THEN Then(OkOut(<<t[lo].a>>), RenderRange(t, lo + 1, hi, ctx))
    ELSE IF t[lo].k = "var"
         THEN Then(OkOut(RenderVar(ctx, t[lo].a)), RenderRange(t, lo + 1, hi, ctx))
    ELSE LET j == MatchClose(t, lo + 1, 0)
             r == RenderBlock(t, t[lo], lo + 1, j - 1, ctx)
         IN  IF ~r.ok THEN RenderErr
             ELSE Then(r, RenderRange(t, j + 1, hi, ctx))

\* hb.render("note", &note)
HbRender(t, note) == RenderRange(t, 1, Len(t), RootCtx(note))

\* ------------------------------------------------------------ the note

\* resolve_note_defaults, were an empty tags list of the request taken as unset.
ResolveMergingTags(name, note, default) ==
    [template |-> UnwrapOr(note.template, default.template),
     filename |-> name,
     title |-> UnwrapOr(note.title, default.title),
     content |-> UnwrapOr(note.content, default.content),
     tags |-> IF note.tags = Some(<< >>) THEN default.tags
              ELSE UnwrapOr(note.tags, default.tags)]

\* resolve_note_defaults, were the file named after the title.
ResolveNamedByTitle(name, note, default) ==
    [template |-> UnwrapOr(note.template, default.template),
     filename |-> UnwrapOr(note.title, default.title) \o <<".md">>,
     title |-> UnwrapOr(note.title, default.title),
     content |-> UnwrapOr(note.content, default.content),
     tags |-> UnwrapOr(note.tags, default.tags)]

\* fn resolve_note_defaults(name, note, default) -> Note
resolve_note_defaults(name, note, default) ==
    [template |-> UnwrapOr(note.template, default.template),
     filename |-> name,
     title |-> UnwrapOr(note.title, default.title),
     content |-> UnwrapOr(note.content, default.content),
     tags |-> UnwrapOr(note.tags, default.tags)]

\* render_note_template, were the compile error unwrapped like the render error.
RenderUnwrappingCompile(note) ==
    LET c == Compile(note.template)
    IN  IF ~c.ok THEN [kind |-> "panic", out |-> << >>]
        ELSE LET r == HbRender(c.t, note)
             IN  IF ~r.ok THEN [kind |-> "panic", out |-> << >>]
                 ELSE [kind |-> "ok", out |-> r.out]

\* fn render_note_template(note) -> Result<String, Box<dyn Error>>: "err" when
\* the template does not compile (the ? of line 39), "panic" when the
\* compiled template fails to render (the unwrap of line 41).
render_note_template(note) ==
    LET c == Compile(note.template)
    IN  IF ~c.ok THEN [kind |-> "err", out |-> << >>]
        ELSE LET r == HbRender(c.t, note)
             IN  IF ~r.ok THEN [kind |-> "panic", out |-> << >>]
                 ELSE [kind |-> "ok", out |-> r.out]

\* render_note_template(&resolved_note).unwrap_or(String::from(""))
ContentOf(r) == IF r.kind = "ok" THEN r.out ELSE << >>

\* NewNote::new(template, title, content, tags)
NewNote(template, title, content, tags) ==
    [template |-> template, title |-> title, content |-> content, tags |-> tags]

\* ------------------------------------------------------- the file system

Ext == ".md"

\* zk_root.join(&note_name), for a relative note_name
PathJoin(root, name) == [dir |-> root, file |-> name]

NoFile == [exists |-> FALSE, data |-> << >>]

\* fs::File::create: the file exists and is empty.
Truncated == [exists |-> TRUE, data |-> << >>]

\* A write of text at the start of a file holding data: what lies beyond the
\* written text stays.
WriteAt(data, text) ==
    text \o SubSeq(data, Len(text) + 1, Len(data))

\* ----------------------------------------------------------------- state

VARIABLES
    dirs,     \* the directories that exist
    fs,       \* the file at each path: [exists, data]
    pc,       \* each call's position in open_create
    args,     \* each call's arguments: zk_root, name_generator's result, note, default
    loc,      \* each call's locals: note_name, note_path, resolved_note, content
    ret,      \* each call's result: Ok(path), Err or a panic
    lastOk,   \* history: per path, the content of the last call that returned Ok
    lastEnd,  \* history: per path, how the last call that created the file ended
    pin,      \* the note pipeline alone: its inputs (name, note, default)
    pres,     \* the note pipeline alone: the resolved note
    pout,     \* the note pipeline alone: the outcome of the rendering
    pstage    \* the note pipeline alone: "input", "resolved" or "rendered"

fsVars == <<dirs, fs, pc, args, loc, ret, lastOk, lastEnd>>

pureVars == <<pin, pres, pout, pstage>>

vars == <<dirs, fs, pc, args, loc, ret, lastOk, lastEnd, pin, pres, pout, pstage>>

\* ---------------------------------------------------------------- inputs

\* The longest title and the longest tag list the note pipeline is given.
MaxText == 2

MaxTags == 2

Alphabet == {"a", "&"}

\* The texts of at most n symbols.
Texts(n) == UNION {[1..k -> Alphabet] : k \in 0..n}

\* The tag lists of at most n tags.
TagLists(n) == UNION {[1..k -> {<<"t1">>, <<"&">>}] : k \in 0..n}

\* tests::create_note_defaults
TestTemplate ==
    <<Open("if", "tags"), Text("---"), Text(NL), Text("tags:"), Text(NL),
      Open("each", "tags"), Text("  - "), Var("this"), Text(NL), Close("each"),
      Text(NL), Text("---"), Text(NL), Text(NL), Close("if"),
      Text("# "), Var("title"), Text(NL), Text(NL), Var("content")>>

create_note_defaults ==
    [template |-> TestTemplate, title |-> << >>, content |-> << >>, tags |-> << >>]

\* DefaultNote::new
DefaultNote_new ==
    [template |->
        <<Text("# "), Var("title"), Text(NL), Text(NL), Var("content"), Text(NL),
          Text(NL), Open("if", "tags"), Open("each", "tags"), Text("#[["),
          Var("this"), Text("]] "), Close("each"), Close("if")>>,
     title |-> <<"New zettle">>,
     content |-> <<"New note content">>,
     tags |-> << <<"fleeting">> >>]

\* {{title}} and {{content}}, the templates of the interpolation tests
TplTitle == <<Var("title")>>

TplContent == <<Var("content")>>

\* A section that is never closed: a syntax error.
TplUnmatched == <<Text("X"), Open("if", "title"), Var("title")>>

\* A section of a helper that is not registered: it compiles, and fails
\* when rendered.
TplUnknown == <<Text("X"), Open("foo", "title"), Var("title"), Close("foo")>>

\* {{#if tags}}body{{/if}}
IfSection(body) == <<Open("if", "tags")>> \o body \o <<Close("if")>>

\* {{#each tags}}body{{/each}}
EachSection(body) == <<Open("each", "tags")>> \o body \o <<Close("each")>>

\* The template of tests::test_create_should_populate_tags_in_supported_template
TagsTemplate ==
    <<Open("if", "tags"), Text("---"), Text(NL), Text(NL), Text("tags:"), Text(NL),
      Text(NL), Open("each", "tags"), Text("  -"), Var("this"), Text(NL),
      Close("each"), Text(NL), Text("---"), Close("if")>>

IfBodies == {<<Text("X")>>, <<Text(NL), Text("X"), Text("Y")>>}

EachBodies ==
    {<<Var("this")>>, <<Text("  -"), Var("this"), Text(NL)>>,
     <<Text("#[["), Var("this"), Text("]] ")>>}

\* The templates the note pipeline is given.
PureTemplates ==
    {TplTitle, TplContent, TplUnmatched, TplUnknown, TagsTemplate}
        \cup {IfSection(b) : b \in IfBodies}
        \cup {EachSection(b) : b \in EachBodies}

\* The inputs the note pipeline is given.
PureInputs ==
    {[name |-> n, note |-> NewNote(t, ti, c, tg), default |-> d] :
        n \in {<<"test">>},
        t \in {None} \cup {Some(tp) : tp \in PureTemplates},
        ti \in {None} \cup {Some(tx) : tx \in Texts(MaxText)},
        c \in {None, Some(<<"c">>)},
        tg \in {None} \cup {Some(l) : l \in TagLists(MaxTags)},
        d \in {create_note_defaults, DefaultNote_new}}

Procs == {1, 2}

Roots == {"zk", "nowhere"}

GenNames == {<<"test">>, <<"x7">>}

AllPaths == {PathJoin(r, n \o <<Ext>>) : r \in Roots, n \in GenNames}

CallArgs(root, name, note, default) ==
    [zk_root |-> root, name |-> name, note |-> note, default |-> default]

\* The requests of the sequential runs, each with its defaults: those of the
\* tests, an unclosed section, an unknown helper, a title the renderer
\* escapes, and the production defaults.
Notes ==
    {<<NewNote(Some(TplTitle), Some(<<"a", "a">>), None, None), create_note_defaults>>,
     <<NewNote(Some(TplTitle), Some(<<"&">>), Some(<<"c">>), None), create_note_defaults>>,
     <<NewNote(Some(TplContent), None, Some(<<"c">>), None), create_note_defaults>>,
     <<NewNote(Some(TplUnmatched), Some(<<"a", "a">>), None, None), create_note_defaults>>,
     <<NewNote(Some(TplUnknown), Some(<<"a", "a">>), None, None), create_note_defaults>>,
     <<NewNote(None, None, None, None), create_note_defaults>>,
     <<NewNote(Some(TplTitle), None, None, Some(<< >>)), DefaultNote_new>>,
     <<NewNote(Some(TplTitle), Some(<<"a", "a">>), None, None), DefaultNote_new>>}

\* The calls of the sequential runs.
Calls ==
    {CallArgs(r, n, nd[1], nd[2]) : r \in Roots, n \in GenNames, nd \in Notes}

\* The calls of the concurrent runs.
ConcCalls ==
    {CallArgs(r, <<"test">>, NewNote(Some(t), Some(ti), None, None), create_note_defaults) :
        r \in Roots, t \in {TplTitle, TplUnknown},
        ti \in {<<"a", "a">>, <<"b">>}}

\* What the variables of a call hold while no call runs.
NoDefault == [template |-> << >>, title |-> << >>, content |-> << >>, tags |-> << >>]

NoArgs == CallArgs("", << >>, NewNote(None, None, None, None), NoDefault)

NoNote ==
    [template |-> << >>, filename |-> << >>, title |-> << >>, content |-> << >>,
     tags |-> << >>]

NoLoc ==
    [note_name |-> << >>, note_path |-> PathJoin("", << >>),
     resolved_note |-> NoNote, content |-> << >>]

NoRet == [kind |-> "none", path |-> PathJoin("", << >>)]

Ok(path) == [kind |-> "ok", path |-> path]

Err == [kind |-> "err", path |-> PathJoin("", << >>)]

Panic == [kind |-> "panic", path |-> PathJoin("", << >>)]

\* ----------------------------------------------------------- open_create

\* open_create_created, were the file opened for writing without being truncated.
CreateKeepingData(p, a) ==
    LET note_name == a.name \o <<Ext>>
        note_path == PathJoin(a.zk_root, note_name)
    IN  /\ pc[p] = "idle"
        /\ a.zk_root \in dirs
        /\ fs' = [fs EXCEPT ![note_path].exists = TRUE]
        /\ args' = [args EXCEPT ![p] = a]
        /\ loc' = [loc EXCEPT ![p] = [NoLoc EXCEPT !.note_name = note_name,
                                                  !.note_path = note_path]]
        /\ pc' = [pc EXCEPT ![p] = "created"]
        /\ lastEnd' = [lastEnd EXCEPT ![note_path] = "open"]
        /\ UNCHANGED <<dirs, ret, lastOk, pureVars>>

\* open_create_create_err, were a missing root directory made before the error is returned.
CreateErrMakingRoot(p, a) ==
    LET note_name == a.name \o <<Ext>>
        note_path == PathJoin(a.zk_root, note_name)
    IN  /\ pc[p] = "idle"
        /\ dirs' = dirs \cup {a.zk_root}
        /\ args' = [args EXCEPT ![p] = a]
        /\ loc' = [loc EXCEPT ![p] = [NoLoc EXCEPT !.note_name = note_name,
                                                  !.note_path = note_path]]
        /\ pc' = [pc EXCEPT ![p] = "create_failed"]
        /\ ret' = [ret EXCEPT ![p] = Err]
        /\ UNCHANGED <<fs, lastOk, lastEnd, pureVars>>

\* Lines 15-17 when File::create succeeds: the file exists and is empty.
open_create_created(p, a) ==
    LET note_name == a.name \o <<Ext>>
        note_path == PathJoin(a.zk_root, note_name)
    IN  /\ pc[p] = "idle"
        /\ a.zk_root \in dirs
        /\ fs' = [fs EXCEPT ![note_path] = Truncated]
        /\ args' = [args EXCEPT ![p] = a]
        /\ loc' = [loc EXCEPT ![p] = [NoLoc EXCEPT !.note_name = note_name,
                                                  !.note_path = note_path]]
        /\ pc' = [pc EXCEPT ![p] = "created"]
        /\ lastEnd' = [lastEnd EXCEPT ![note_path] = "open"]
        /\ UNCHANGED <<dirs, ret, lastOk, pureVars>>

\* Lines 15-17 when File::create fails (no such directory, or the system
\* refuses): the ? returns the error.
open_create_create_err(p, a) ==
    LET note_name == a.name \o <<Ext>>
        note_path == PathJoin(a.zk_root, note_name)
    IN  /\ pc[p] = "idle"
        /\ args' = [args EXCEPT ![p] = a]
        /\ loc' = [loc EXCEPT ![p] = [NoLoc EXCEPT !.note_name = note_name,
                                                  !.note_path = note_path]]
        /\ pc' = [pc EXCEPT ![p] = "create_failed"]
        /\ ret' = [ret EXCEPT ![p] = Err]
        /\ UNCHANGED <<dirs, fs, lastOk, lastEnd, pureVars>>

\* Lines 19-21 when the rendering returns (Ok, or the Err that unwrap_or
\* replaces by the empty text).
open_create_rendered(p) ==
    LET resolved_note == resolve_note_defaults(loc[p].note_name, args[p].note, args[p].default)
        r == render_note_template(resolved_note)
    IN  /\ pc[p] = "created"
        /\ r.kind # "panic"
        /\ loc' = [loc EXCEPT ![p].resolved_note = resolved_note,
                              ![p].content = ContentOf(r)]
        /\ pc' = [pc EXCEPT ![p] = "rendered"]
        /\ UNCHANGED <<dirs, fs, args, ret, lastOk, lastEnd, pureVars>>

\* Lines 19-21 when hb.render fails: the unwrap of line 41 panics, and the
\* call unwinds with the file created and nothing written.
open_create_render_panic(p) ==
    LET resolved_note == resolve_note_defaults(loc[p].note_name, args[p].note, args[p].default)
        r == render_note_template(resolved_note)
    IN  /\ pc[p] = "created"
        /\ r.kind = "panic"
        /\ loc' = [loc EXCEPT ![p].resolved_note = resolved_note]
        /\ pc' = [pc EXCEPT ![p] = "panicked"]
        /\ ret' = [ret EXCEPT ![p] = Panic]
        /\ lastEnd' = [lastEnd EXCEPT ![loc[p].note_path] = "panic"]
        /\ UNCHANGED <<dirs, fs, args, lastOk, pureVars>>

\* Lines 22-24 when the write succeeds: the content goes to the start of the
\* file this call opened, and the path is returned.
open_create_written(p) ==
    LET path == loc[p].note_path
    IN  /\ pc[p] = "rendered"
        /\ fs' = [fs EXCEPT ![path].data = WriteAt(@, loc[p].content)]
        /\ pc' = [pc EXCEPT ![p] = "done"]
        /\ ret' = [ret EXCEPT ![p] = Ok(path)]
        /\ lastOk' = [lastOk EXCEPT ![path] = Some(loc[p].content)]
        /\ lastEnd' = [lastEnd EXCEPT ![path] = "ok"]
        /\ UNCHANGED <<dirs, args, loc, pureVars>>

\* Line 22 when the write fails, some k symbols short of the whole content,
\* written: the ? returns the error. An empty content is not written at all
\* and cannot fail.
open_create_write_err(p) ==
    LET path == loc[p].note_path
    IN  /\ pc[p] = "rendered"
        /\ \E k \in 0..(Len(loc[p].content) - 1) :
              fs' = [fs EXCEPT ![path].data = WriteAt(@, SubSeq(loc[p].content, 1, k))]
        /\ pc' = [pc EXCEPT ![p] = "write_failed"]
        /\ ret' = [ret EXCEPT ![p] = Err]
        /\ lastEnd' = [lastEnd EXCEPT ![path] = "err"]
        /\ UNCHANGED <<dirs, args, loc, lastOk, pureVars>>

Ended == {"done", "create_failed", "write_failed", "panicked"}

\* The call is over: its caller has the result.
open_create_return(p) ==
    /\ pc[p] \in Ended
    /\ pc' = [pc EXCEPT ![p] = "idle"]
    /\ args' = [args EXCEPT ![p] = NoArgs]
    /\ loc' = [loc EXCEPT ![p] = NoLoc]
    /\ ret' = [ret EXCEPT ![p] = NoRet]
    /\ UNCHANGED <<dirs, fs, lastOk, lastEnd, pureVars>>

\* ------------------------------------------------------ the note pipeline

\* Line 19 alone: the note is resolved.
Resolve ==
    /\ pstage = "input"
    /\ pres' = resolve_note_defaults(pin.name \o <<Ext>>, pin.note, pin.default)
    /\ pstage' = "resolved"
    /\ UNCHANGED <<pin, pout, fsVars>>

\* The call of render_note_template of line 21 alone.
Render ==
    /\ pstage = "resolved"
    /\ pout' = render_note_template(pres)
    /\ pstage' = "rendered"
    /\ UNCHANGED <<pin, pres, fsVars>>

\* -------------------------------------------------------- specifications

InitFs ==
    /\ dirs = {"zk"}
    /\ fs = [q \in AllPaths |-> NoFile]
    /\ pc = [p \in Procs |-> "idle"]
    /\ args = [p \in Procs |-> NoArgs]
    /\ loc = [p \in Procs |-> NoLoc]
    /\ ret = [p \in Procs |-> NoRet]
    /\ lastOk = [q \in AllPaths |-> None]
    /\ lastEnd = [q \in AllPaths |-> "none"]

InitPure ==
    /\ pin = [name |-> << >>, note |-> NewNote(None, None, None, None),
              default |-> NoDefault]
    /\ pres = NoNote
    /\ pout = [kind |-> "none", out |-> << >>]
    /\ pstage = "off"

Init == InitFs /\ InitPure

\* Calls one after another: one caller, each call run to its end.
Next ==
    \/ \E a \in Calls : open_create_created(1, a)
    \/ \E a \in Calls : open_create_create_err(1, a)
    \/ open_create_rendered(1)
    \/ open_create_render_panic(1)
    \/ open_create_written(1)
    \/ open_create_write_err(1)
    \/ open_create_return(1)

Spec == Init /\ [][Next]_vars

\* The note pipeline on each of its inputs.
InitNote ==
    /\ InitFs
    /\ pin \in PureInputs
    /\ pres = NoNote
    /\ pout = [kind |-> "none", out |-> << >>]
    /\ pstage = "input"

NextNote ==
    \/ Resolve
    \/ Render

SpecNote == InitNote /\ [][NextNote]_vars

\* Two callers whose steps interleave.
NextConc ==
    \/ \E p \in Procs, a \in ConcCalls : open_create_created(p, a)
    \/ \E p \in Procs, a \in ConcCalls : open_create_create_err(p, a)
    \/ \E p \in Procs : open_create_rendered(p)
    \/ \E p \in Procs : open_create_render_panic(p)
    \/ \E p \in Procs : open_create_written(p)
    \/ \E p \in Procs : open_create_write_err(p)
    \/ \E p \in Procs : open_create_return(p)

SpecConc == Init /\ [][NextConc]_vars

\* ---------------------------------------------------------------- claims

OverridableFields == {"template", "title", "content", "tags"}

\* The path a call is to create.
TargetPath(p) == PathJoin(args[p].zk_root, args[p].name \o <<Ext>>)

\* The note a call resolves, from its arguments.
NoteOf(p) == resolve_note_defaults(args[p].name \o <<Ext>>, args[p].note, args[p].default)

\* The tokens between the opening and the closing tag of a one-section
\* template, as compiled.
SectionBody(tpl) ==
    LET t == Compile(tpl).t IN SubSeq(t, 2, Len(t) - 1)

\* The text of a body of literal text.
Literal(body) == [j \in 1..Len(body) |-> body[j].a]

\* The text of a body of literal text and interpolations, in a context.
BodyFor(body, ctx) ==
    Concat([j \in 1..Len(body) |->
                IF body[j].k = "text" THEN <<body[j].a>> ELSE RenderVar(ctx, body[j].a)])

IsPrefix(s, t) == Len(s) <= Len(t) /\ s = SubSeq(t, 1, Len(s))

\* C1: each of template, title, content and tags of the resolved note is the
\* request's value when the request has one and the default's value when it
\* has none, whatever the other fields are.
ResolutionOverrideLaw ==
    pstage \in {"resolved", "rendered"} =>
        \A f \in OverridableFields :
            pres[f] = IF pin.note[f] # None THEN pin.note[f][1] ELSE pin.default[f]

\* C1 happens: an empty tags list of the request replaces non-empty default
\* tags, while the unset title is the default's.
ResolutionOverrideWitness ==
    /\ pstage = "resolved"
    /\ pin.note.tags = Some(<< >>)
    /\ pin.default.tags # << >>
    /\ pres.tags = << >>
    /\ pin.note.title = None
    /\ pres.title = pin.default.title
    /\ pin.note.content # None

\* C4: a section {{#if tags}}body{{/if}} renders to its body when the resolved
\* tags are not empty and to nothing when they are; and a request whose tags
\* are the empty list renders as the same request with tags unset does under
\* defaults whose tags are empty.
FalsyEmptySequenceLaw ==
    pstage = "rendered" =>
        /\ \A b \in IfBodies :
              pres.template = IfSection(b) =>
                  pout = [kind |-> "ok",
                          out |-> IF pres.tags # << >>
                                  THEN Literal(SectionBody(pres.template))
                                  ELSE << >>]
        /\ pin.note.tags = Some(<< >>) =>
              pout = render_note_template(
                         resolve_note_defaults(pin.name \o <<Ext>>,
                                             [pin.note EXCEPT !.tags = None],
                                             [pin.default EXCEPT !.tags = << >>]))

\* C4 happens: a tags section rendered for a request whose tags are the empty
\* list, over defaults whose tags are not empty.
FalsyEmptySequenceWitness ==
    /\ pstage = "rendered"
    /\ pres.template = IfSection(<<Text("X")>>)
    /\ pin.note.tags = Some(<< >>)
    /\ pin.default.tags # << >>
    /\ pout = [kind |-> "ok", out |-> << >>]

\* C10: a section {{#each tags}}body{{/each}} renders to the body rendered for
\* the first tag, then for the second, and so on to the last, each tag once.
IterationLaw ==
    pstage = "rendered" =>
        \A b \in EachBodies :
            pres.template = EachSection(b) =>
                pout = [kind |-> "ok",
                        out |-> Concat([i \in 1..Len(pres.tags) |->
                                    BodyFor(SectionBody(pres.template),
                                            ItemCtx(pres, pres.tags[i]))])]

\* C10 happens: two different tags rendered by an iteration section.
IterationWitness ==
    /\ pstage = "rendered"
    /\ pres.template = EachSection(<<Text("  -"), Var("this"), Text(NL)>>)
    /\ pres.tags = << <<"t1">>, <<"&">> >>
    /\ pout.out = <<"  -", "t1", NL, "  -", "&amp;", NL>>

\* C2: a call whose resolved template does not compile, once its file is
\* created, neither fails nor panics: the file at rootDir/(name + ".md")
\* exists and is empty, and the call returns Ok with that path.
FallbackOnRenderError ==
    \A p \in Procs :
        (pc[p] \in {"created", "rendered", "done", "write_failed", "panicked"}
            /\ ~Compile(NoteOf(p).template).ok) =>
                /\ pc[p] \in {"created", "rendered", "done"}
                /\ fs[TargetPath(p)] = Truncated
                /\ pc[p] = "rendered" => loc[p].content = << >>
                /\ pc[p] = "done" => ret[p] = Ok(TargetPath(p))

\* C2 happens: a call with an unclosed section has returned, over a file
\* that an earlier call had filled.
FallbackOnRenderErrorWitness ==
    /\ pc[1] = "done"
    /\ args[1].note.template = Some(TplUnmatched)
    /\ ret[1] = Ok(TargetPath(1))
    /\ fs[TargetPath(1)] = Truncated
    /\ lastEnd[TargetPath(1)] = "ok"

\* C3: a call whose template fails, at compile time or at render time, ends
\* (once its file is created) by returning Ok with the path of an empty file.
TemplateFailureRecovered ==
    \A p \in Procs :
        (pc[p] \in {"done", "write_failed", "panicked"}
            /\ render_note_template(NoteOf(p)).kind # "ok") =>
                /\ pc[p] = "done"
                /\ ret[p] = Ok(TargetPath(p))
                /\ fs[TargetPath(p)] = Truncated

\* C5: a call that succeeds returns rootDir/(g + ".md"), g being the
\* generated name, and its resolved note's filename is g + ".md".
FilenameDeterminism ==
    \A p \in Procs :
        /\ pc[p] \in {"rendered", "done", "write_failed", "panicked"} =>
              loc[p].resolved_note.filename = args[p].name \o <<".md">>
        /\ pc[p] = "done" =>
              ret[p] = [kind |-> "ok",
                        path |-> [dir |-> args[p].zk_root,
                                  file |-> args[p].name \o <<".md">>]]

\* C5 happens: a call with a title, a content and a template of its own has
\* returned the path of the generated name.
FilenameDeterminismWitness ==
    /\ pc[1] = "done"
    /\ args[1].name = <<"x7">>
    /\ args[1].note.title = Some(<<"&">>)
    /\ args[1].note.content # None
    /\ ret[1].path = [dir |-> "zk", file |-> <<"x7", ".md">>]
    /\ loc[1].resolved_note.filename = <<"x7", ".md">>

\* C6: a call whose File::create fails returns the error and does nothing
\* else: the failing step and every later step of the call leave the files
\* and the directories as they were, the call only returns, and no call gets
\* past the creation under a root directory that does not exist.
CreateFailureIsFinal ==
    [][\A p \in Procs :
          /\ (pc[p] = "idle" /\ pc'[p] = "create_failed") =>
                (fs' = fs /\ dirs' = dirs /\ ret'[p] = Err)
          /\ pc[p] = "create_failed" =>
                (fs' = fs /\ dirs' = dirs /\ pc'[p] \in {"create_failed", "idle"})
          /\ (pc[p] = "idle" /\ pc'[p] # "idle" /\ args'[p].zk_root \notin dirs) =>
                pc'[p] = "create_failed"]_vars

\* C6 happens: a call under a missing root has failed, a note of an earlier
\* call being in place.
CreateFailureWitness ==
    /\ pc[1] = "create_failed"
    /\ args[1].zk_root \notin dirs
    /\ ret[1] = Err
    /\ fs[TargetPath(1)] = NoFile
    /\ \E q \in AllPaths : fs[q].exists /\ fs[q].data # << >>

AllIdle == \A p \in Procs : pc[p] = "idle"

\* C7, as stated: between calls, a file holds the text of the last call on
\* its path that returned Ok. (The files whose last call panicked, which is
\* C3's subject, are left aside: the statement fails without them.)
LastSuccessfulCallWins ==
    AllIdle =>
        \A q \in AllPaths :
            (lastOk[q] # None /\ lastEnd[q] # "panic") =>
                fs[q] = [exists |-> TRUE, data |-> lastOk[q][1]]

\* C7, amended: between calls, a file holds what the last call that created
\* it left: its whole text when it returned Ok, nothing when its rendering
\* panicked, and a beginning of its text when its write failed.
LastCreatingCallWins ==
    /\ AllIdle =>
          \A q \in AllPaths :
              /\ lastEnd[q] \in {"none", "ok", "err", "panic"}
              /\ lastEnd[q] = "none" => fs[q] = NoFile
              /\ lastEnd[q] = "ok" => fs[q] = [exists |-> TRUE, data |-> lastOk[q][1]]
              /\ lastEnd[q] = "panic" => fs[q] = Truncated
              /\ lastEnd[q] = "err" => fs[q].exists
    /\ \A p \in Procs :
          pc[p] = "write_failed" =>
              /\ IsPrefix(fs[TargetPath(p)].data, loc[p].content)
              /\ fs[TargetPath(p)].data # loc[p].content

\* C7 happens: one file was rewritten by a call that panicked after an
\* earlier call had filled it, and another file holds its last call's text.
LastCreatingCallWitness ==
    /\ AllIdle
    /\ \E q1, q2 \in AllPaths :
          /\ q1 # q2
          /\ lastEnd[q1] = "panic" /\ lastOk[q1] = Some(<<"a", "a">>) /\ fs[q1] = Truncated
          /\ lastEnd[q2] = "ok" /\ fs[q2].data = <<"c">>

\* C8: with the template {{title}} the file holds the resolved title, and
\* with {{content}} the resolved content.
InterpolationAsIs ==
    \A p \in Procs :
        pc[p] = "done" =>
            /\ loc[p].resolved_note.template = TplTitle =>
                  fs[TargetPath(p)].data = loc[p].resolved_note.title
            /\ loc[p].resolved_note.template = TplContent =>
                  fs[TargetPath(p)].data = loc[p].resolved_note.content

\* C9: when two calls on the same path have both returned Ok, the file holds
\* the text of the one that wrote last.
LastWriterWins ==
    (/\ \A p \in Procs : pc[p] = "done"
     /\ TargetPath(1) = TargetPath(2)) =>
        fs[TargetPath(1)].data = lastOk[TargetPath(1)][1]
====
